---------------------------- MODULE Spec2Model ----------------------------
(* A model of the elastio_task weather command-line tool:                  *)
(*   src/src/main.rs              the process: startup and the command loop *)
(*   src/src/prompt_agent.rs      PromptAgent: new, process_command         *)
(*   src/src/provider/mod.rs      ProviderName and the Provider trait       *)
(*   src/src/provider/open_weather_map.rs, weather_api.rs   the two clients *)
(* Text is modelled as sequences of one-character strings, dates as        *)
(* records [y, m, d]; outbound HTTP calls are recorded, with the upstream's *)
(* answer chosen by the environment.                                       *)
EXTENDS Integers, Sequences, FiniteSets, TLC

(***************************************************************************)
(* Bounds of the model                                                     *)
(***************************************************************************)
\* the longest forecast series a capped upstream plan returns
MaxUpstreamDays == 3
\* how many times the local date may change while the model runs
MaxClockTicks == 1

(***************************************************************************)
(* Characters and text                                                     *)
(***************************************************************************)
AsciiDigits == <<"0", "1", "2", "3", "4", "5", "6", "7", "8", "9">>

\* a decimal digit outside ASCII (ARABIC-INDIC DIGIT THREE), one character
ArabicThree == "U+0663"

AsciiDigitSet == {AsciiDigits[i] : i \in 1..10}

\* the class \d of the regex crate: Unicode decimal digits
IsRegexDigit(c) == c \in AsciiDigitSet \cup {ArabicThree}

DigitVal(c) == (CHOOSE i \in 1..10 : AsciiDigits[i] = c) - 1

LowerAlpha ==
    <<"a", "b", "c", "d", "e", "f", "g", "h", "i", "j", "k", "l", "m",
      "n", "o", "p", "q", "r", "s", "t", "u", "v", "w", "x", "y", "z">>

UpperAlpha ==
    <<"A", "B", "C", "D", "E", "F", "G", "H", "I", "J", "K", "L", "M",
      "N", "O", "P", "Q", "R", "S", "T", "U", "V", "W", "X", "Y", "Z">>

IsUpper(c) == \E i \in 1..26 : UpperAlpha[i] = c
IsLower(c) == \E i \in 1..26 : LowerAlpha[i] = c

to_ascii_uppercase_char(c) ==
    IF IsLower(c) THEN UpperAlpha[CHOOSE i \in 1..26 : LowerAlpha[i] = c] ELSE c

to_ascii_lowercase_char(c) ==
    IF IsUpper(c) THEN LowerAlpha[CHOOSE i \in 1..26 : UpperAlpha[i] = c] ELSE c

to_ascii_lowercase(s) == [i \in 1..Len(s) |-> to_ascii_lowercase_char(s[i])]

\* str::replace('_', "-")
replace_underscore(s) == [i \in 1..Len(s) |-> IF s[i] = "_" THEN "-" ELSE s[i]]

(***************************************************************************)
(* ProviderName (provider/mod.rs)                                          *)
(***************************************************************************)
OpenWeatherMap == "OpenWeatherMap"
WeatherApi == "WeatherApi"

\* the variants in declaration order, the order of ProviderName::iter()
ProviderNameIter == <<OpenWeatherMap, WeatherApi>>

ProviderName == {ProviderNameIter[i] : i \in 1..Len(ProviderNameIter)}

\* impl Default for ProviderName
DefaultProviderName == OpenWeatherMap

\* the identifier of a variant, as written in the enum
VariantIdent(p) ==
    IF p = OpenWeatherMap
    THEN <<"O", "p", "e", "n", "W", "e", "a", "t", "h", "e", "r", "M", "a", "p">>
    ELSE <<"W", "e", "a", "t", "h", "e", "r", "A", "p", "i">>

RECURSIVE ScreamingSnake(_, _)
\* strum serialize_all = "SCREAMING_SNAKE_CASE": a '_' before every word
\* but the first, every letter in upper case
ScreamingSnake(s, i) ==
    IF i > Len(s) THEN <<>>
    ELSE (IF i > 1 /\ IsUpper(s[i]) THEN <<"_">> ELSE <<>>)
         \o <<to_ascii_uppercase_char(s[i])>>
         \o ScreamingSnake(s, i + 1)

\* strum_macros::Display: ProviderName::to_string
to_string(p) == ScreamingSnake(VariantIdent(p), 1)

\* get_pretty_name without the replacement of '_'
get_pretty_name_keeping_underscores(p) == to_ascii_lowercase(to_string(p))

\* ProviderName::get_pretty_name
get_pretty_name(p) == replace_underscore(to_ascii_lowercase(to_string(p)))

(***************************************************************************)
(* Dates: the regex of process_command and chrono's NaiveDate              *)
(***************************************************************************)
\* Regex ^\d{4}-\d{2}-\d{2}$ (prompt_agent.rs), is_match
is_match(date) ==
    /\ Len(date) = 10
    /\ \A i \in {1, 2, 3, 4, 6, 7, 9, 10} : IsRegexDigit(date[i])
    /\ date[5] = "-"
    /\ date[8] = "-"

IsLeapYear(y) == (y % 4 = 0 /\ y % 100 # 0) \/ y % 400 = 0

DaysInMonth(y, m) ==
    IF m = 2 THEN (IF IsLeapYear(y) THEN 29 ELSE 28)
    ELSE IF m \in {4, 6, 9, 11} THEN 30 ELSE 31

\* NaiveDate::from_ymd_opt: is (y, m, d) a date of the calendar
IsCalendarDate(y, m, d) ==
    /\ m \in 1..12
    /\ d >= 1
    /\ d <= DaysInMonth(y, m)

NoDate == [y |-> 0, m |-> 0, d |-> 0]

\* NaiveDate::parse_from_str(date, "%Y-%m-%d"): chrono reads ASCII digits
\* only, then builds the date, which fails for a day that does not exist
parse_from_str(date) ==
    IF ~(/\ Len(date) = 10
         /\ \A i \in {1, 2, 3, 4, 6, 7, 9, 10} : date[i] \in AsciiDigitSet
         /\ date[5] = "-"
         /\ date[8] = "-")
    THEN [date |-> NoDate, ok |-> FALSE]
    ELSE LET y == DigitVal(date[1]) * 1000 + DigitVal(date[2]) * 100
                  + DigitVal(date[3]) * 10 + DigitVal(date[4])
             m == DigitVal(date[6]) * 10 + DigitVal(date[7])
             d == DigitVal(date[9]) * 10 + DigitVal(date[10])
         IN  IF IsCalendarDate(y, m, d)
             THEN [date |-> [y |-> y, m |-> m, d |-> d], ok |-> TRUE]
             ELSE [date |-> NoDate, ok |-> FALSE]

\* the day number of a date, 1970-01-01 being day 0 (proleptic Gregorian)
DaysFromCivil(dt) ==
    LET y   == IF dt.m <= 2 THEN dt.y - 1 ELSE dt.y
        era == y \div 400
        yoe == y - era * 400
        mp  == IF dt.m > 2 THEN dt.m - 3 ELSE dt.m + 9
        doy == (153 * mp + 2) \div 5 + dt.d - 1
        doe == yoe * 365 + yoe \div 4 - yoe \div 100 + doy
    IN  era * 146097 + doe - 719468

\* Ord for NaiveDate: "Less", "Equal" or "Greater"
cmp(a, b) ==
    IF a.y # b.y THEN (IF a.y < b.y THEN "Less" ELSE "Greater")
    ELSE IF a.m # b.m THEN (IF a.m < b.m THEN "Less" ELSE "Greater")
    ELSE IF a.d # b.d THEN (IF a.d < b.d THEN "Less" ELSE "Greater")
    ELSE "Equal"

\* (a - b).num_days()
num_days(a, b) == DaysFromCivil(a) - DaysFromCivil(b)

\* midday_timestamp with the time of day left at 00:00:00
midday_timestamp_at_midnight(dt) == DaysFromCivil(dt) * 86400

\* NaiveDateTime::new(date, 12:00:00).timestamp()
midday_timestamp(dt) == DaysFromCivil(dt) * 86400 + 43200

\* the date after dt
Tomorrow(dt) ==
    IF dt.d < DaysInMonth(dt.y, dt.m) THEN [dt EXCEPT !.d = dt.d + 1]
    ELSE IF dt.m < 12 THEN [dt EXCEPT !.m = dt.m + 1, !.d = 1]
    ELSE [y |-> dt.y + 1, m |-> 1, d |-> 1]

\* the text of a number in two and in four ASCII digits
Fmt2(n) == <<AsciiDigits[((n \div 10) % 10) + 1], AsciiDigits[(n % 10) + 1]>>
Fmt4(n) == Fmt2(n \div 100) \o Fmt2(n % 100)

\* YYYY-MM-DD written with the given numbers, calendar date or not
FmtDate(y, m, d) == Fmt4(y) \o <<"-">> \o Fmt2(m) \o <<"-">> \o Fmt2(d)

(***************************************************************************)
(* The process environment and the provider registry                       *)
(***************************************************************************)
\* an environment variable that is not set
NoKey == "unset"

\* the API key the .env file holds for a provider, when it holds one
KeyInEnv(p) == IF p = OpenWeatherMap THEN "key-of-open-weather-map" ELSE "key-of-weather-api"

\* every assignment of set / unset to the per-provider variables
Environments == {e \in [ProviderName -> {NoKey} \cup {KeyInEnv(p) : p \in ProviderName}] :
                    \A p \in ProviderName : e[p] \in {NoKey, KeyInEnv(p)}}

\* the empty HashMap
EmptyMap == <<>>

RECURSIVE CollectProviders_skipping(_, _, _)
\* the loop leaving out the providers whose variable is not set
CollectProviders_skipping(environment, i, available_providers) ==
    IF i > Len(ProviderNameIter)
    THEN [ok |-> TRUE, map |-> available_providers, missing |-> "none"]
    ELSE LET provider_name == ProviderNameIter[i]
             api_key == environment[provider_name]
         IN  IF api_key = NoKey
             THEN CollectProviders_skipping(environment, i + 1, available_providers)
             ELSE CollectProviders_skipping(environment, i + 1,
                                   (provider_name :> api_key) @@ available_providers)

RECURSIVE CollectProviders(_, _, _)
\* the loop of get_available_providers from the i-th variant on: the first
\* variable that is not set ends the function with the error (the `?`)
CollectProviders(environment, i, available_providers) ==
    IF i > Len(ProviderNameIter)
    THEN [ok |-> TRUE, map |-> available_providers, missing |-> "none"]
    ELSE LET provider_name == ProviderNameIter[i]
             api_key == environment[provider_name]
         IN  IF api_key = NoKey
             THEN [ok |-> FALSE, map |-> EmptyMap, missing |-> provider_name]
             ELSE CollectProviders(environment, i + 1,
                                   (provider_name :> api_key) @@ available_providers)

\* PromptAgent::get_available_providers
get_available_providers(environment) == CollectProviders(environment, 1, EmptyMap)

\* the client a provider variant is served by
ClientOf(p) ==
    IF p = OpenWeatherMap THEN "open_weather_map::OpenWeatherMap"
    ELSE "weather_api::WeatherApi"

\* get_provider_instance with the match arms giving one client
get_provider_instance_one_client(p, api_key) ==
    [api_key |-> api_key, client |-> ClientOf(OpenWeatherMap)]

\* ProviderName::get_provider_instance, with OpenWeatherMap::new / WeatherApi::new
get_provider_instance(p, api_key) == [api_key |-> api_key, client |-> ClientOf(p)]

NoProvider == [api_key |-> NoKey, client |-> "none"]

(***************************************************************************)
(* The upstream services                                                   *)
(***************************************************************************)
\* the answer to the geocoding call: the request fails (network, timeout),
\* the body does not decode, or it is a list of at most one match (limit=1)
GeoResponses ==
    {[status |-> "send_failed", matches |-> 0, capped |-> FALSE, cap |-> 0],
     [status |-> "bad_json", matches |-> 0, capped |-> FALSE, cap |-> 0],
     [status |-> "ok", matches |-> 0, capped |-> FALSE, cap |-> 0],
     [status |-> "ok", matches |-> 1, capped |-> FALSE, cap |-> 0]}

\* the answer to a weather call; when capped, cap is the longest forecast
\* series the plan of the upstream returns, whatever was asked
WeatherResponses ==
    {[status |-> "send_failed", matches |-> 0, capped |-> FALSE, cap |-> 0],
     [status |-> "bad_json", matches |-> 0, capped |-> FALSE, cap |-> 0]}
    \cup {[status |-> "ok", matches |-> 0, capped |-> FALSE, cap |-> 0]}
    \cup {[status |-> "ok", matches |-> 0, capped |-> TRUE, cap |-> c] : c \in 0..MaxUpstreamDays}

\* what the upstream services answer in one command: the geocoding answer
\* and, when that one gives coordinates, the weather answer
UpstreamAnswers ==
    {[geo |-> g, wx |-> CHOOSE w \in WeatherResponses : w.status = "send_failed"] :
        g \in {r \in GeoResponses : r.status # "ok" \/ r.matches = 0}}
    \cup {[geo |-> CHOOSE g \in GeoResponses : g.status = "ok" /\ g.matches = 1, wx |-> w] :
        w \in WeatherResponses}

Min(a, b) == IF a < b THEN a ELSE b

\* the forecast series of the upstream: one entry per day from today on,
\* each named here by the day number it forecasts
UpstreamForecast(now_date, days, wx) ==
    LET k == IF wx.capped THEN Min(days, wx.cap) ELSE days
        first == DaysFromCivil(now_date)
    IN  [i \in 1..k |-> first + i - 1]

\* the history series of the upstream: the entry of the day asked for
UpstreamHistory(date) ==
    LET parsed == parse_from_str(date)
    IN  IF parsed.ok THEN <<DaysFromCivil(parsed.date)>> ELSE <<>>

\* one outbound HTTPS GET: the endpoint, the query parameters and the answer
Call(endpoint, key, q, coords, dt, ts, days, answer) ==
    [dt |-> dt, days |-> days, endpoint |-> endpoint, key |-> key,
     q |-> q, coords |-> coords, ts |-> ts, answer |-> answer]

NoTimestamp == -1
NoWeather == [variant |-> "none", forecastday |-> <<>>]
NoCoordinates == ""

(***************************************************************************)
(* provider/open_weather_map.rs                                            *)
(***************************************************************************)
\* get_coordinates_per_place giving default coordinates for no match
get_coordinates_per_place_defaulting(api_key, address, geo) ==
    LET call == Call("geo/1.0/direct", api_key, address, NoCoordinates, <<>>, NoTimestamp, 0, geo)
    IN  IF geo.status # "ok"
        THEN [coords |-> NoCoordinates, res |-> "UpstreamError", calls |-> <<call>>]
        ELSE [coords |-> address, res |-> "Ok", calls |-> <<call>>]

\* OpenWeatherMap::get_coordinates_per_place
get_coordinates_per_place(api_key, address, geo) ==
    LET call == Call("geo/1.0/direct", api_key, address, NoCoordinates, <<>>, NoTimestamp, 0, geo)
    IN  IF geo.status # "ok"
        THEN [coords |-> NoCoordinates, res |-> "UpstreamError", calls |-> <<call>>]
        ELSE IF geo.matches >= 1
        THEN [coords |-> address, res |-> "Ok", calls |-> <<call>>]
        ELSE [coords |-> NoCoordinates, res |-> "AddressNotFound", calls |-> <<call>>]

\* OpenWeatherMap::get_current_weather_parsed_data
get_current_weather_parsed_data(api_key, coords, wx) ==
    LET call == Call("data/3.0/onecall", api_key, "", coords, <<>>, NoTimestamp, 0, wx)
    IN  IF wx.status # "ok"
        THEN [res |-> "UpstreamError", calls |-> <<call>>, weather |-> NoWeather]
        ELSE [res |-> "Ok", calls |-> <<call>>,
              weather |-> [variant |-> "FromOpenWeatherMapCurrent", forecastday |-> <<>>]]

\* get_timed_weather_parsed_data sending the request once more when the
\* first attempt fails
get_timed_weather_parsed_data_retrying(api_key, coords, timestamp, wx) ==
    LET call == Call("data/3.0/onecall/timemachine", api_key, "", coords, <<>>, timestamp, 0, wx)
    IN  IF wx.status # "ok"
        THEN [res |-> "UpstreamError", calls |-> <<call, call>>, weather |-> NoWeather]
        ELSE [res |-> "Ok", calls |-> <<call>>,
              weather |-> [variant |-> "FromOpenWeatherMapTimed", forecastday |-> <<>>]]

\* OpenWeatherMap::get_timed_weather_parsed_data
get_timed_weather_parsed_data(api_key, coords, timestamp, wx) ==
    LET call == Call("data/3.0/onecall/timemachine", api_key, "", coords, <<>>, timestamp, 0, wx)
    IN  IF wx.status # "ok"
        THEN [res |-> "UpstreamError", calls |-> <<call>>, weather |-> NoWeather]
        ELSE [res |-> "Ok", calls |-> <<call>>,
              weather |-> [variant |-> "FromOpenWeatherMapTimed", forecastday |-> <<>>]]

\* impl Provider for OpenWeatherMap: get_current_weather
OpenWeatherMap_get_current_weather(api_key, address, geo, wx) ==
    LET place_coords == get_coordinates_per_place(api_key, address, geo)
    IN  IF place_coords.res # "Ok"
        THEN [res |-> place_coords.res, calls |-> place_coords.calls, weather |-> NoWeather]
        ELSE LET response == get_current_weather_parsed_data(api_key, place_coords.coords, wx)
             IN  [response EXCEPT !.calls = place_coords.calls \o response.calls]

\* get_timed_weather resolving the address before it parses the date
OpenWeatherMap_get_timed_weather_geocoding_first(api_key, address, date, geo, wx) ==
    LET datetime == parse_from_str(date)
        place_coords == get_coordinates_per_place(api_key, address, geo)
    IN  IF place_coords.res # "Ok"
        THEN [res |-> place_coords.res, calls |-> place_coords.calls, weather |-> NoWeather]
        ELSE IF ~datetime.ok
        THEN [res |-> "InvalidDateValue", calls |-> place_coords.calls, weather |-> NoWeather]
        ELSE LET response ==
                     get_timed_weather_parsed_data(api_key, place_coords.coords,
                         midday_timestamp(datetime.date), wx)
             IN  [response EXCEPT !.calls = place_coords.calls \o response.calls]

\* impl Provider for OpenWeatherMap: get_timed_weather
OpenWeatherMap_get_timed_weather(api_key, address, date, geo, wx) ==
    LET datetime == parse_from_str(date)
    IN  IF ~datetime.ok
        THEN [res |-> "InvalidDateValue", calls |-> <<>>, weather |-> NoWeather]
        ELSE LET place_coords == get_coordinates_per_place(api_key, address, geo)
             IN  IF place_coords.res # "Ok"
                 THEN [res |-> place_coords.res, calls |-> place_coords.calls,
                       weather |-> NoWeather]
                 ELSE LET response ==
                              get_timed_weather_parsed_data(api_key, place_coords.coords,
                                  midday_timestamp(datetime.date), wx)
                      IN  [response EXCEPT !.calls = place_coords.calls \o response.calls]

(***************************************************************************)
(* provider/weather_api.rs                                                 *)
(***************************************************************************)
\* WeatherApi::get_current_weather_data
get_current_weather_data(api_key, address, wx) ==
    LET call == Call("v1/current.json", api_key, address, NoCoordinates, <<>>, NoTimestamp, 0, wx)
    IN  IF wx.status # "ok"
        THEN [res |-> "UpstreamError", calls |-> <<call>>, weather |-> NoWeather]
        ELSE [res |-> "Ok", calls |-> <<call>>,
              weather |-> [variant |-> "FromWeatherApiCurrent", forecastday |-> <<>>]]

\* Vec::last of the forecast series, then the Forecast rebuilt from it alone
KeepLast(forecastday) == <<forecastday[Len(forecastday)]>>

\* WeatherApi::get_forecast_weather_data
get_forecast_weather_data(api_key, address, days_from_now, now_date, wx) ==
    LET call == Call("v1/forecast.json", api_key, address, NoCoordinates, <<>>,
                     NoTimestamp, days_from_now, wx)
        forecastday == UpstreamForecast(now_date, days_from_now, wx)
    IN  IF wx.status # "ok"
        THEN [res |-> "UpstreamError", calls |-> <<call>>, weather |-> NoWeather]
        ELSE IF Len(forecastday) = 0
        THEN [res |-> "UpstreamError", calls |-> <<call>>, weather |-> NoWeather]
        ELSE [res |-> "Ok", calls |-> <<call>>,
              weather |-> [variant |-> "FromWeatherApiTimed",
                           forecastday |-> KeepLast(forecastday)]]

\* WeatherApi::get_history_weather_data
get_history_weather_data(api_key, address, date, wx) ==
    LET call == Call("v1/history.json", api_key, address, NoCoordinates, date, NoTimestamp, 0, wx)
    IN  IF wx.status # "ok"
        THEN [res |-> "UpstreamError", calls |-> <<call>>, weather |-> NoWeather]
        ELSE [res |-> "Ok", calls |-> <<call>>,
              weather |-> [variant |-> "FromWeatherApiTimed",
                           forecastday |-> UpstreamHistory(date)]]

\* days_from_now without the day of today
days_from_now_excluding_today(date_date, now_date) == num_days(date_date, now_date)

\* the forecast window of a date in the future: days up to it, today included
days_from_now(date_date, now_date) == num_days(date_date, now_date) + 1

\* the forecast arm taken for today as well
IsForecastArm_from_today(date_date, now_date) == cmp(date_date, now_date) # "Less"

\* the match on date_date.cmp(&now_date): is the forecast arm taken
IsForecastArm(date_date, now_date) == cmp(date_date, now_date) = "Greater"

\* WeatherApi::get_timed_weather_data
get_timed_weather_data(api_key, address, date, now_date, wx) ==
    LET date_date == parse_from_str(date)
    IN  IF ~date_date.ok
        THEN [res |-> "InvalidDateValue", calls |-> <<>>, weather |-> NoWeather]
        ELSE IF IsForecastArm(date_date.date, now_date)
        THEN get_forecast_weather_data(api_key, address,
                 days_from_now(date_date.date, now_date), now_date, wx)
        ELSE get_history_weather_data(api_key, address, date, wx)

(***************************************************************************)
(* The Provider trait, dispatched on the client the agent holds            *)
(***************************************************************************)
\* Provider::get_current_weather
get_current_weather(provider, address, geo, wx) ==
    IF provider.client = "open_weather_map::OpenWeatherMap"
    THEN OpenWeatherMap_get_current_weather(provider.api_key, address, geo, wx)
    ELSE get_current_weather_data(provider.api_key, address, wx)

\* Provider::get_timed_weather
get_timed_weather(provider, address, date, now_date, geo, wx) ==
    IF provider.client = "open_weather_map::OpenWeatherMap"
    THEN OpenWeatherMap_get_timed_weather(provider.api_key, address, date, geo, wx)
    ELSE get_timed_weather_data(provider.api_key, address, date, now_date, wx)

(***************************************************************************)
(* Commands (InputSubcommand) and the inputs the model draws               *)
(***************************************************************************)
NoneDate == [some |-> FALSE, text |-> <<>>]
SomeDate(text) == [some |-> TRUE, text |-> text]

NoCommand == [date |-> NoneDate, address |-> "", provider |-> "none", kind |-> "none"]
GetCommand(address, date) == [date |-> date, address |-> address, provider |-> "none", kind |-> "get"]
ConfigureCommand(p) == [date |-> NoneDate, address |-> "", provider |-> p, kind |-> "configure"]
CurrentProviderCommand == [date |-> NoneDate, address |-> "", provider |-> "none", kind |-> "current-provider"]

Addresses == {"L'aquila, Italy"}

\* dates of the calendar, as (year, month, day)
CalendarSamples ==
    {<<2020, 1, 1>>, <<2023, 4, 9>>, <<2023, 4, 10>>, <<2023, 4, 11>>, <<2023, 4, 12>>,
     <<2023, 4, 30>>, <<2023, 12, 31>>, <<2024, 1, 1>>, <<2024, 1, 2>>, <<2024, 2, 29>>,
     <<2024, 3, 1>>}

\* numbers that are no date of the calendar
NonCalendarSamples ==
    {<<2000, 12, 32>>, <<2023, 2, 29>>, <<2023, 4, 31>>, <<2023, 13, 1>>, <<2023, 0, 10>>,
     <<2023, 4, 0>>, <<1900, 2, 29>>}

\* texts of the shape YYYY-MM-DD, calendar dates or not
ShapedDates == {FmtDate(t[1], t[2], t[3]) : t \in CalendarSamples \cup NonCalendarSamples}

\* texts a user may type that are not ten ASCII characters of that shape
OddDates ==
    {<<"2", "0", "2", "3", "-", "3", "-", "3", "1">>,
     <<"2", "0", "2", "3", "0", "3", "3", "1">>,
     <<"2", "0", "2", "3", "/", "0", "3", "/", "3", "1">>,
     <<"2", "0", "2", "3", "-", "0", "4", "-", "1", "2", "\n">>,
     <<>>,
     <<"2", "0", "2", "3", "-", "0", "4", "-", "1", ArabicThree>>}

DateInputs == {NoneDate} \cup {SomeDate(t) : t \in ShapedDates \cup OddDates}

\* the local dates the model starts at
StartDates ==
    {[y |-> 2023, m |-> 4, d |-> 10],
     [y |-> 2023, m |-> 12, d |-> 31]}

\* the persisted record of confy: no file yet, a file that does not load, or
\* a file holding a provider name
NoConfigFile == "no-file"
CorruptConfigFile == "corrupt-file"
ConfigFiles == {NoConfigFile, CorruptConfigFile} \cup ProviderName

\* one printed line: the format string and the texts substituted in it
Line(msg, args) == [msg |-> msg, args |-> args]

(***************************************************************************)
(* prompt_agent.rs                                                         *)
(***************************************************************************)
\* confy::load(APP_NAME, None): a missing file is created with the default
\* record, a file that does not parse is an error
confy_load(file) ==
    IF file = CorruptConfigFile
    THEN [ok |-> FALSE, provider_name |-> "none", file |-> file]
    ELSE IF file = NoConfigFile
    THEN [ok |-> TRUE, provider_name |-> DefaultProviderName, file |-> DefaultProviderName]
    ELSE [ok |-> TRUE, provider_name |-> file, file |-> file]

\* available_providers.get(&provider_name).expect("Couldn't retrieve
\* required api_key"): the key stored for the provider; expect panics when
\* the map has no entry for it
select_provider_key(available_providers, provider_name) ==
    IF provider_name \in DOMAIN available_providers
    THEN [ok |-> TRUE, api_key |-> available_providers[provider_name]]
    ELSE [ok |-> FALSE, api_key |-> NoKey]

\* PromptAgent::new
new(file, environment) ==
    LET config == confy_load(file)
        available_providers == get_available_providers(environment)
    IN  IF ~config.ok
        THEN [available_providers |-> EmptyMap, missing |-> "none", res |-> "ConfigLoadError",
              file |-> config.file,
              current_provider_name |-> "none", current_provider |-> NoProvider]
        ELSE IF ~available_providers.ok
        THEN [available_providers |-> EmptyMap, missing |-> available_providers.missing,
              res |-> "MissingCredential", file |-> config.file,
              current_provider_name |-> "none", current_provider |-> NoProvider]
        ELSE IF ~select_provider_key(available_providers.map, config.provider_name).ok
        THEN [available_providers |-> available_providers.map, missing |-> "none", res |-> "panic",
              file |-> config.file,
              current_provider_name |-> "none", current_provider |-> NoProvider]
        ELSE [available_providers |-> available_providers.map, missing |-> "none", res |-> "Ok",
              file |-> config.file,
              current_provider_name |-> config.provider_name,
              current_provider |->
                  get_provider_instance(config.provider_name,
                      select_provider_key(available_providers.map,
                                          config.provider_name).api_key)]

\* what a command leaves behind: its result, the lines printed, the calls
\* sent, the weather obtained and the records written by confy::store
Outcome(res, output, calls, weather, stores) ==
    [res |-> res, calls |-> calls, weather |-> weather, output |-> output, stores |-> stores]

\* process_get going on to the current weather when the date is off pattern
process_get_lenient(provider, command, now_date, geo, wx) ==
    IF command.date.some /\ is_match(command.date.text)
    THEN LET weather == get_timed_weather(provider, command.address, command.date.text,
                                          now_date, geo, wx)
         IN  IF weather.res # "Ok"
             THEN Outcome(weather.res, <<>>, weather.calls, NoWeather, <<>>)
             ELSE Outcome("Ok", <<Line("-- Weather for {} on {}: \n{}", <<command.date.text>>)>>,
                          weather.calls, weather.weather, <<>>)
    ELSE LET weather == get_current_weather(provider, command.address, geo, wx)
         IN  IF weather.res # "Ok"
             THEN Outcome(weather.res, <<>>, weather.calls, NoWeather, <<>>)
             ELSE Outcome("Ok", <<Line("-- Current weather for {}: \n{}", <<>>)>>,
                          weather.calls, weather.weather, <<>>)

\* process_command, the arm InputSubcommand::Get
process_get(provider, command, now_date, geo, wx) ==
    IF command.date.some /\ ~is_match(command.date.text)
    THEN Outcome("InvalidDateFormat", <<>>, <<>>, NoWeather, <<>>)
    ELSE IF command.date.some
    THEN LET weather == get_timed_weather(provider, command.address, command.date.text,
                                          now_date, geo, wx)
         IN  IF weather.res # "Ok"
             THEN Outcome(weather.res, <<>>, weather.calls, NoWeather, <<>>)
             ELSE Outcome("Ok", <<Line("-- Weather for {} on {}: \n{}", <<command.date.text>>)>>,
                          weather.calls, weather.weather, <<>>)
    ELSE LET weather == get_current_weather(provider, command.address, geo, wx)
         IN  IF weather.res # "Ok"
             THEN Outcome(weather.res, <<>>, weather.calls, NoWeather, <<>>)
             ELSE Outcome("Ok", <<Line("-- Current weather for {}: \n{}", <<>>)>>,
                          weather.calls, weather.weather, <<>>)

\* process_configure without the comparison with the active provider
process_configure_always_stores(current_provider_name, provider_name, store_ok) ==
    IF store_ok
    THEN Outcome("Ok", <<Line("-- Provider was successfully changed.", <<>>)>>,
                 <<>>, NoWeather, <<provider_name>>)
    ELSE Outcome("ConfigStoreError", <<>>, <<>>, NoWeather, <<>>)

\* process_command, the arm InputSubcommand::Configure; store_ok tells
\* whether confy::store succeeds
process_configure(current_provider_name, provider_name, store_ok) ==
    IF provider_name = current_provider_name
    THEN Outcome("Ok",
                 <<Line("-- Provider {} is already in use.",
                        <<get_pretty_name(current_provider_name)>>)>>,
                 <<>>, NoWeather, <<>>)
    ELSE LET changing == Line("-- Changing provider: {} => {}.",
                              <<get_pretty_name(current_provider_name),
                                get_pretty_name(provider_name)>>)
         IN  IF store_ok
             THEN Outcome("Ok",
                          <<changing, Line("-- Provider was successfully changed.", <<>>)>>,
                          <<>>, NoWeather, <<provider_name>>)
             ELSE Outcome("ConfigStoreError", <<changing>>, <<>>, NoWeather, <<>>)

\* process_current_provider storing the provider it reports
process_current_provider_storing(current_provider_name) ==
    Outcome("Ok",
            <<Line("-- Current provider: {}.", <<get_pretty_name(current_provider_name)>>)>>,
            <<>>, NoWeather, <<current_provider_name>>)

\* process_command, the arm InputSubcommand::CurrentProvider
process_current_provider(current_provider_name) ==
    Outcome("Ok",
            <<Line("-- Current provider: {}.", <<get_pretty_name(current_provider_name)>>)>>,
            <<>>, NoWeather, <<>>)

\* PromptAgent::process_command(&self, command)
process_command(current_provider_name, current_provider, command, now_date, geo, wx, store_ok) ==
    IF command.kind = "get"
    THEN process_get(current_provider, command, now_date, geo, wx)
    ELSE IF command.kind = "configure"
    THEN process_configure(current_provider_name, command.provider, store_ok)
    ELSE process_current_provider(current_provider_name)

(***************************************************************************)
(* The process (main.rs)                                                   *)
(***************************************************************************)
VARIABLES
    pc,                     \* where main is: "start", "running", "exited", "failed"
    environment,            \* the process environment, after dotenv
    file,                   \* the configuration record confy persists
    startup,                \* what PromptAgent::new returned
    available_providers,    \* the credential map new built
    current_provider_name,  \* PromptAgent.current_provider_name
    current_provider,       \* PromptAgent.current_provider
    today,                  \* Local::now().date_naive()
    ticks,                  \* how often the local date has changed
    now_date,               \* the local date when the last command ran
    command,                \* the input of the last loop iteration
    result                  \* what that iteration left behind

vars == <<pc, environment, file, startup, available_providers, current_provider_name,
          current_provider, today, ticks, now_date, command, result>>

agent == <<current_provider_name, current_provider, available_providers, startup>>

NoOutcome == Outcome("none", <<>>, <<>>, NoWeather, <<>>)
NoStartup == [missing |-> "none", provider_name |-> "none", res |-> "none"]

Init ==
    /\ pc = "start"
    /\ environment \in Environments
    /\ file \in ConfigFiles
    /\ startup = NoStartup
    /\ available_providers = EmptyMap
    /\ current_provider_name = "none"
    /\ current_provider = NoProvider
    /\ today \in StartDates
    /\ ticks = 0
    /\ now_date = NoDate
    /\ command = NoCommand
    /\ result = NoOutcome

\* main: PromptAgent::new().context(..)? ; an error ends the process
Start ==
    /\ pc = "start"
    /\ LET made == new(file, environment)
       IN  /\ startup' = [missing |-> made.missing, provider_name |-> made.current_provider_name,
                          res |-> made.res]
           /\ file' = made.file
           /\ available_providers' = made.available_providers
           /\ current_provider_name' = made.current_provider_name
           /\ current_provider' = made.current_provider
           /\ pc' = IF made.res = "Ok" THEN "running" ELSE "failed"
    /\ UNCHANGED <<environment, today, ticks, now_date, command, result>>

\* an upstream answer for the commands that send nothing
Unasked == CHOOSE u \in UpstreamAnswers : TRUE

\* the input is `get <address> [date]`
Get ==
    /\ pc = "running"
    /\ \E address \in Addresses, date \in DateInputs, up \in UpstreamAnswers :
          /\ command' = GetCommand(address, date)
          /\ result' = process_command(current_provider_name, current_provider, command',
                                       today, up.geo, up.wx, TRUE)
    /\ file' = IF result'.stores # <<>> THEN result'.stores[Len(result'.stores)] ELSE file
    /\ pc' = IF result'.res = "Ok" THEN "running" ELSE "exited"
    /\ now_date' = today
    /\ UNCHANGED <<environment, agent, today, ticks>>

\* the input is `configure <provider-name>`
Configure ==
    /\ pc = "running"
    /\ \E p \in ProviderName, store_ok \in BOOLEAN :
          /\ command' = ConfigureCommand(p)
          /\ result' = process_command(current_provider_name, current_provider, command',
                                       today, Unasked.geo, Unasked.wx, store_ok)
    /\ file' = IF result'.stores # <<>> THEN result'.stores[Len(result'.stores)] ELSE file
    /\ pc' = IF result'.res = "Ok" THEN "running" ELSE "exited"
    /\ now_date' = today
    /\ UNCHANGED <<environment, agent, today, ticks>>

\* the input is `current-provider`
CurrentProvider ==
    /\ pc = "running"
    /\ command' = CurrentProviderCommand
    /\ result' = process_command(current_provider_name, current_provider, command',
                                 today, Unasked.geo, Unasked.wx, TRUE)
    /\ file' = IF result'.stores # <<>> THEN result'.stores[Len(result'.stores)] ELSE file
    /\ pc' = IF result'.res = "Ok" THEN "running" ELSE "exited"
    /\ now_date' = today
    /\ UNCHANGED <<environment, agent, today, ticks>>

\* ParseFailure writing the default record, as a first run does
ParseFailure_storing_default ==
    /\ pc = "running"
    /\ \E error_kind \in {"DisplayHelp", "InvalidSubcommand"} :
        /\ command' = [NoCommand EXCEPT !.kind = error_kind]
        /\ result' = Outcome(error_kind,
                             <<Line(IF error_kind = "DisplayHelp" THEN "{}"
                                    ELSE "Error: {}. Please, see help and try again!", <<>>)>>,
                             <<>>, NoWeather, <<DefaultProviderName>>)
    /\ file' = DefaultProviderName
    /\ now_date' = today
    /\ UNCHANGED <<pc, environment, agent, today, ticks>>

\* one iteration whose input does not parse: Err(err), printed, the loop
\* goes on; error_kind is clap's ErrorKind, DisplayHelp for a help request
ParseFailure ==
    /\ pc = "running"
    /\ \E error_kind \in {"DisplayHelp", "InvalidSubcommand"} :
        /\ command' = [NoCommand EXCEPT !.kind = error_kind]
        /\ result' = Outcome(error_kind,
                             <<Line(IF error_kind = "DisplayHelp" THEN "{}"
                                    ELSE "Error: {}. Please, see help and try again!", <<>>)>>,
                             <<>>, NoWeather, <<>>)
    /\ now_date' = today
    /\ UNCHANGED <<pc, environment, file, agent, today, ticks>>

\* midnight passes
Tick ==
    /\ ticks < MaxClockTicks
    /\ today' = Tomorrow(today)
    /\ ticks' = ticks + 1
    /\ UNCHANGED <<pc, environment, file, agent, now_date, command, result>>

\* the user ends the running process
Interrupt ==
    /\ pc = "running"
    /\ pc' = "exited"
    /\ UNCHANGED <<environment, file, agent, today, ticks, now_date, command, result>>

\* the user runs the program again: a new process, the same files
Launch ==
    /\ pc \in {"exited", "failed"}
    /\ pc' = "start"
    /\ startup' = NoStartup
    /\ available_providers' = EmptyMap
    /\ current_provider_name' = "none"
    /\ current_provider' = NoProvider
    /\ command' = NoCommand
    /\ result' = NoOutcome
    /\ now_date' = NoDate
    /\ UNCHANGED <<environment, file, today, ticks>>

Next ==
    \/ Start
    \/ Get
    \/ Configure
    \/ CurrentProvider
    \/ ParseFailure
    \/ Tick
    \/ Interrupt
    \/ Launch

Spec == Init /\ [][Next]_vars

(***************************************************************************)
(* The selection of the client in PromptAgent::new, on any credential map  *)
(***************************************************************************)
\* keys a credential map may hold
SampleKeys == {KeyInEnv(p) : p \in ProviderName} \cup {"another-key"}

\* every HashMap<ProviderName, String> over these keys, the maps lacking
\* a provider included
CredentialMaps == UNION {[S -> SampleKeys] : S \in SUBSET ProviderName}

\* new after its line 59, with some credential map and the provider name
\* of the loaded record
SelectInit ==
    /\ pc = "select"
    /\ environment = [p \in ProviderName |-> KeyInEnv(p)]
    /\ file \in ProviderName
    /\ startup = NoStartup
    /\ available_providers \in CredentialMaps
    /\ current_provider_name = "none"
    /\ current_provider = NoProvider
    /\ today \in StartDates
    /\ ticks = 0
    /\ now_date = NoDate
    /\ command = NoCommand
    /\ result = NoOutcome

\* new, lines 60-70: the key is looked up, the client is built and the
\* agent returned; a panic of expect unwinds out of new and main
Select ==
    /\ pc = "select"
    /\ LET provider_key == select_provider_key(available_providers, file)
       IN  IF provider_key.ok
           THEN /\ current_provider' = get_provider_instance(file, provider_key.api_key)
                /\ current_provider_name' = file
                /\ startup' = [missing |-> "none", provider_name |-> file, res |-> "Ok"]
                /\ pc' = "running"
           ELSE /\ startup' = [missing |-> "none", provider_name |-> "none", res |-> "panic"]
                /\ pc' = "panicked"
                /\ UNCHANGED <<current_provider, current_provider_name>>
    /\ UNCHANGED <<environment, file, available_providers, today, ticks, now_date,
                   command, result>>

SelectNext == Select

SelectSpec == SelectInit /\ [][SelectNext]_vars

(***************************************************************************)
(* Properties                                                              *)
(***************************************************************************)
\* a step of the loop of main that handled the input `cmd`
Handled(cmd) ==
    /\ pc = "running"
    /\ command' = cmd
    /\ <<command, result, now_date>>' # <<command, result, now_date>>

\* the line `current-provider` prints for provider p
CurrentProviderLine(p) == Line("-- Current provider: {}.", <<get_pretty_name(p)>>)

\* C1: when a `configure B` that succeeded, B not being the provider active
\* at startup, is followed at once by `current-provider` in the same
\* process, the line printed names B.
C1_CurrentProviderReflectsConfigure ==
    [][(/\ pc = "running"
        /\ command.kind = "configure"
        /\ result.res = "Ok"
        /\ command.provider # startup.provider_name
        /\ Handled(CurrentProviderCommand))
       => result'.output = <<CurrentProviderLine(command.provider)>>]_vars

\* C2: `configure p` with p the active provider prints "already in use",
\* stores no configuration record, leaves the persisted record and the
\* agent as they were, and returns Ok (the loop goes on).
C2_ConfigureActiveIsNoOp ==
    [][Handled(ConfigureCommand(current_provider_name))
       => /\ result'.res = "Ok"
          /\ result'.output =
                <<Line("-- Provider {} is already in use.",
                       <<IF current_provider_name = OpenWeatherMap
                         THEN <<"o", "p", "e", "n", "-", "w", "e", "a", "t", "h", "e", "r",
                                "-", "m", "a", "p">>
                         ELSE <<"w", "e", "a", "t", "h", "e", "r", "-", "a", "p", "i">>>>)>>
          /\ result'.stores = <<>>
          /\ file' = file
          /\ current_provider_name' = current_provider_name
          /\ current_provider' = current_provider
          /\ pc' = "running"]_vars

\* C2 witness: the active provider was configured again, after another
\* provider had been stored in the persisted record
C2_Witness ==
    /\ pc = "running"
    /\ command.kind = "configure"
    /\ command.provider = current_provider_name
    /\ result.res = "Ok"
    /\ result.stores = <<>>
    /\ file # current_provider_name

\* C3: whatever variables are set, get_available_providers either gives a
\* map with a key for every ProviderName (holding the value of its
\* variable), or fails naming a provider whose variable is not set; no map
\* lacking a provider is ever given.
C3_AllCredentialsOrError ==
    /\ LET got == get_available_providers(environment)
       IN  \/ /\ got.ok
              /\ DOMAIN got.map = ProviderName
              /\ \A p \in ProviderName : got.map[p] = environment[p] /\ got.map[p] # NoKey
           \/ /\ ~got.ok
              /\ got.missing \in ProviderName
              /\ environment[got.missing] = NoKey
    /\ startup.res \in {"Ok", "panic"} => DOMAIN available_providers = ProviderName
    /\ startup.res = "MissingCredential" =>
          /\ startup.missing \in ProviderName
          /\ environment[startup.missing] = NoKey
          /\ available_providers = EmptyMap

\* C3 witness: startup failed on a partial credential set, the first
\* variable being set and the second not
C3_Witness ==
    /\ pc = "failed"
    /\ startup.res = "MissingCredential"
    /\ startup.missing = WeatherApi
    /\ environment[OpenWeatherMap] # NoKey

\* a well-shaped text with a decimal digit that is not ASCII
ArabicDate == <<"2", "0", "2", "3", "-", "0", "4", "-", "1", ArabicThree>>

\* texts that match the pattern and name no date of the calendar
PatternButNoDate == {FmtDate(t[1], t[2], t[3]) : t \in NonCalendarSamples} \cup {ArabicDate}

\* texts that do not match the pattern
OffPattern == OddDates \ {ArabicDate}

\* texts that name a date of the calendar
CalendarTexts == {FmtDate(t[1], t[2], t[3]) : t \in CalendarSamples}

\* the date a calendar text names
Named(text) ==
    LET t == CHOOSE c \in CalendarSamples : FmtDate(c[1], c[2], c[3]) = text
    IN  [y |-> t[1], m |-> t[2], d |-> t[3]]

IsDatedGet == command.kind = "get" /\ command.date.some

\* C4: a `get` whose date matches the pattern but is no calendar date
\* (2000-12-32) fails with the date-value error, whichever provider is
\* active, and sends no HTTP call at all.
C4_InvalidCalendarDateSendsNothing ==
    (IsDatedGet /\ command.date.text \in PatternButNoDate)
    => /\ result.res = "InvalidDateValue"
       /\ result.calls = <<>>
       /\ result.weather = NoWeather

\* C4 witness: 2000-12-32 was asked of the WeatherApi client and refused
C4_Witness ==
    /\ IsDatedGet
    /\ command.date.text = FmtDate(2000, 12, 32)
    /\ current_provider.client = "weather_api::WeatherApi"
    /\ result.res = "InvalidDateValue"

\* C5: a `get` whose date is present and does not match the pattern
\* (2023-3-31) fails with the date-format error, calls no provider method
\* (no call is sent) and gives no weather, current weather included.
C5_OffPatternDateIsRejected ==
    (IsDatedGet /\ (command.date.text \in OffPattern \/ ~is_match(command.date.text)))
    => /\ result.res = "InvalidDateFormat"
       /\ result.calls = <<>>
       /\ result.weather = NoWeather
       /\ result.output = <<>>

\* C5 witness: 2023-3-31 was refused for its format
C5_Witness ==
    /\ IsDatedGet
    /\ command.date.text = <<"2", "0", "2", "3", "-", "3", "-", "3", "1">>
    /\ result.res = "InvalidDateFormat"
    /\ pc = "exited"

\* C6: with the WeatherApi client, a calendar date d asked on the local
\* date t sends exactly one call: the history call for d when d <= t, the
\* forecast call when d > t.
C6_HistoryOrForecastByDate ==
    (/\ IsDatedGet
     /\ command.date.text \in CalendarTexts
     /\ current_provider.client = "weather_api::WeatherApi")
    => LET d == DaysFromCivil(Named(command.date.text))
           t == DaysFromCivil(now_date)
       IN  /\ Len(result.calls) = 1
           /\ d <= t => /\ result.calls[1].endpoint = "v1/history.json"
                        /\ result.calls[1].dt = command.date.text
           /\ d > t => /\ result.calls[1].endpoint = "v1/forecast.json"
                       /\ result.calls[1].dt = <<>>

\* C6 witness: the date of today itself was asked after midnight had
\* passed, and went to the history call
C6_Witness ==
    /\ IsDatedGet
    /\ current_provider.client = "weather_api::WeatherApi"
    /\ ticks = 1
    /\ parse_from_str(command.date.text).ok
    /\ parse_from_str(command.date.text).date = now_date
    /\ result.res = "Ok"
    /\ result.calls[1].endpoint = "v1/history.json"

\* C7: in forecast mode the window asked for is (target - today) + 1 days,
\* and the result given to the caller holds exactly one forecast entry, the
\* one of the target date.
C7_ForecastWindowAndTargetEntry ==
    (/\ IsDatedGet
     /\ command.date.text \in CalendarTexts
     /\ current_provider.client = "weather_api::WeatherApi"
     /\ DaysFromCivil(Named(command.date.text)) > DaysFromCivil(now_date))
    => LET target == DaysFromCivil(Named(command.date.text))
       IN  /\ Len(result.calls) = 1
           /\ result.calls[1].days = (target - DaysFromCivil(now_date)) + 1
           /\ result.res = "Ok" => result.weather.forecastday = <<target>>

OwmWeatherEndpoints == {"data/3.0/onecall", "data/3.0/onecall/timemachine"}

\* C8: every OpenWeatherMap weather call (current or timemachine) comes
\* right after a geocoding call that gave coordinates; when the geocoding
\* call gives no match, the `get` fails with the address error and sends
\* no weather call.
C8_NoWeatherCallWithoutCoordinates ==
    /\ \A i \in 1..Len(result.calls) :
          result.calls[i].endpoint \in OwmWeatherEndpoints
          => /\ i > 1
             /\ result.calls[i - 1].endpoint = "geo/1.0/direct"
             /\ result.calls[i - 1].answer.status = "ok"
             /\ result.calls[i - 1].answer.matches >= 1
             /\ result.calls[i].coords # NoCoordinates
    /\ (/\ Len(result.calls) >= 1
        /\ result.calls[1].endpoint = "geo/1.0/direct"
        /\ result.calls[1].answer.status = "ok"
        /\ result.calls[1].answer.matches = 0)
       => /\ result.res = "AddressNotFound"
          /\ Len(result.calls) = 1
          /\ result.weather = NoWeather

\* C8 witness: a dated `get` whose geocoding call found no match
C8_Witness ==
    /\ IsDatedGet
    /\ Len(result.calls) = 1
    /\ result.calls[1].endpoint = "geo/1.0/direct"
    /\ result.calls[1].answer.matches = 0
    /\ result.calls[1].answer.status = "ok"
    /\ result.res = "AddressNotFound"

\* the failures of a command
CommandFailures ==
    {"InvalidDateFormat", "InvalidDateValue", "AddressNotFound", "UpstreamError",
     "ConfigStoreError"}

\* C9: a command that fails does not end the loop: the process goes on to
\* accept the next command.
C9_FailureKeepsLoopRunning ==
    [][(/\ pc = "running"
        /\ <<command, result, now_date>>' # <<command, result, now_date>>
        /\ result'.res \in CommandFailures)
       => pc' = "running"]_vars

\* C10: after a successful startup the agent holds the client of
\* current_provider_name, built with the credential of that provider, and
\* the credential map has an entry for every provider.
C10_OneActiveProvider ==
    startup.res = "Ok"
    => /\ current_provider_name \in ProviderName
       /\ current_provider_name = OpenWeatherMap
             => current_provider.client = "open_weather_map::OpenWeatherMap"
       /\ current_provider_name = WeatherApi
             => current_provider.client = "weather_api::WeatherApi"
       /\ DOMAIN available_providers = ProviderName
       /\ current_provider.api_key = available_providers[current_provider_name]
       /\ current_provider.api_key = environment[current_provider_name]
       /\ current_provider.api_key # NoKey

\* C10 witness: the WeatherApi agent after it handled `configure
\* open-weather-map`
C10_Witness ==
    /\ startup.res = "Ok"
    /\ pc = "running"
    /\ current_provider_name = WeatherApi
    /\ command = ConfigureCommand(OpenWeatherMap)
    /\ result.res = "Ok"

\* the provider a process started on the persisted record f begins with
ProviderAtStart(f) == IF f = NoConfigFile THEN DefaultProviderName ELSE f

\* C11: a process that starts begins with the persisted provider, or with
\* OpenWeatherMap when there is no record; a record that does not load makes
\* PromptAgent::new fail before any command is handled; and after a
\* `configure p` that succeeded, a process started next has p active.
C11_StartupFollowsPersistedRecord ==
    [][/\ (pc = "start" /\ pc' = "running")
          => /\ file # CorruptConfigFile
             /\ current_provider_name' = ProviderAtStart(file)
             /\ DefaultProviderName = OpenWeatherMap
       /\ (pc = "start" /\ pc' # "start" /\ file = CorruptConfigFile)
          => /\ pc' = "failed"
             /\ startup'.res = "ConfigLoadError"
             /\ command' = NoCommand
       /\ (Handled(command') /\ command'.kind = "configure" /\ result'.res = "Ok")
          => new(file', environment).current_provider_name = command'.provider]_vars

\* the names the documentation of get_pretty_name gives, and those of the
\* second variant
CanonicalNames ==
    [p \in ProviderName |->
        IF p = OpenWeatherMap
        THEN <<"O", "P", "E", "N", "_", "W", "E", "A", "T", "H", "E", "R", "_", "M", "A", "P">>
        ELSE <<"W", "E", "A", "T", "H", "E", "R", "_", "A", "P", "I">>]

PrettyNames ==
    [p \in ProviderName |->
        IF p = OpenWeatherMap
        THEN <<"o", "p", "e", "n", "-", "w", "e", "a", "t", "h", "e", "r", "-", "m", "a", "p">>
        ELSE <<"w", "e", "a", "t", "h", "e", "r", "-", "a", "p", "i">>]

\* C12: for every provider the canonical name is upper snake case, the
\* pretty name is that name with every letter in lower case and every '_'
\* turned into '-' (OPEN_WEATHER_MAP gives open-weather-map); two providers
\* never share a canonical name or a pretty name; and the names the
\* commands print are these pretty names.
C12_PrettyNameOfCanonicalName ==
    /\ \A p \in ProviderName :
          LET canonical == to_string(p)
              pretty == get_pretty_name(p)
          IN  /\ canonical = CanonicalNames[p]
              /\ pretty = PrettyNames[p]
              /\ Len(pretty) = Len(canonical)
              /\ \A i \in 1..Len(canonical) :
                    /\ IsUpper(canonical[i]) \/ canonical[i] = "_"
                    /\ canonical[i] = "_" <=> pretty[i] = "-"
                    /\ IsUpper(canonical[i]) =>
                          /\ IsLower(pretty[i])
                          /\ to_ascii_uppercase_char(pretty[i]) = canonical[i]
    /\ \A p, q \in ProviderName :
          p # q => /\ to_string(p) # to_string(q)
                   /\ get_pretty_name(p) # get_pretty_name(q)
    /\ (command.kind = "current-provider" /\ current_provider_name \in ProviderName)
       => result.output[1].args = <<PrettyNames[current_provider_name]>>
    /\ (command.kind = "configure" /\ command.provider # current_provider_name)
       => result.output[1].args = <<PrettyNames[current_provider_name],
                                    PrettyNames[command.provider]>>

\* C12 witness: `configure weather-api` printed both pretty names
C12_Witness ==
    /\ command = ConfigureCommand(WeatherApi)
    /\ pc = "running"
    /\ result.output[1].args = <<PrettyNames[OpenWeatherMap], PrettyNames[WeatherApi]>>

RECURSIVE DaysBeforeYear(_)
\* the days from 1970-01-01 to the first day of year y, counted year by year
DaysBeforeYear(y) ==
    IF y <= 1970 THEN 0
    ELSE DaysBeforeYear(y - 1) + (IF IsLeapYear(y - 1) THEN 366 ELSE 365)

RECURSIVE DaysBeforeMonth(_, _)
\* the days of year y before its month m, counted month by month
DaysBeforeMonth(y, m) ==
    IF m <= 1 THEN 0 ELSE DaysBeforeMonth(y, m - 1) + DaysInMonth(y, m - 1)

\* the days since the epoch of a date not before 1970, by counting
DaysSinceEpoch(dt) == DaysBeforeYear(dt.y) + DaysBeforeMonth(dt.y, dt.m) + (dt.d - 1)

\* C14: with the OpenWeatherMap client, a `get` with a calendar date d sends
\* its weather call to the timemachine endpoint with the timestamp of
\* 12:00:00 UTC on d (days since the epoch * 86400 + 43200), and never a
\* call to the current endpoint; a `get` without a date sends its weather
\* call to the current endpoint, without a timestamp, and never a call to
\* the timemachine endpoint. The weather call is sent whenever the
\* geocoding call gave coordinates.
C14_TimemachineAtMiddayUtc ==
    (command.kind = "get" /\ current_provider.client = "open_weather_map::OpenWeatherMap")
    => /\ \A i \in 1..Len(result.calls) :
             result.calls[i].endpoint \in OwmWeatherEndpoints
             => IF command.date.some
                THEN /\ command.date.text \in CalendarTexts
                     /\ result.calls[i].endpoint = "data/3.0/onecall/timemachine"
                     /\ result.calls[i].ts =
                            DaysSinceEpoch(Named(command.date.text)) * 86400 + 43200
                ELSE /\ result.calls[i].endpoint = "data/3.0/onecall"
                     /\ result.calls[i].ts = NoTimestamp
       /\ (/\ ~command.date.some \/ command.date.text \in CalendarTexts
           /\ Len(result.calls) >= 1
           /\ result.calls[1].answer.status = "ok"
           /\ result.calls[1].answer.matches >= 1)
          => /\ Len(result.calls) = 2
             /\ result.calls[2].endpoint \in OwmWeatherEndpoints

\* C14 witness: 2024-02-29 was asked of OpenWeatherMap and the timemachine
\* call carried 1709208000, which is 2024-02-29T12:00:00Z
C14_Witness ==
    /\ IsDatedGet
    /\ current_provider.client = "open_weather_map::OpenWeatherMap"
    /\ command.date.text = FmtDate(2024, 2, 29)
    /\ Len(result.calls) = 2
    /\ result.calls[2].endpoint = "data/3.0/onecall/timemachine"
    /\ result.calls[2].ts = 1709208000
    /\ result.res = "Ok"

\* the endpoints that answer with weather, one per mode: current,
\* historical and forecast of WeatherApi, current and timed of OpenWeatherMap
WeatherEndpoints ==
    {"v1/current.json", "v1/history.json", "v1/forecast.json"} \cup OwmWeatherEndpoints

\* the places in a sequence of calls that went to one of the endpoints
CallsTo(calls, endpoints) == {i \in 1..Len(calls) : calls[i].endpoint \in endpoints}

\* did the upstream answer a call with what the next step needs
Answered(call) ==
    /\ call.answer.status = "ok"
    /\ call.endpoint = "geo/1.0/direct" => call.answer.matches >= 1

\* C15: a `get` sends at most one weather call, to one endpoint (one mode),
\* and before it, with the OpenWeatherMap client only, at most one geocoding
\* call; no call is sent twice; a call that fails is the last call of the
\* command and the command ends with an error, and a command that ends Ok
\* sent a weather call that was answered.
C15_OneQueryNoRetry ==
    command.kind = "get"
    => /\ Cardinality(CallsTo(result.calls, WeatherEndpoints)) <= 1
       /\ Cardinality(CallsTo(result.calls, {"geo/1.0/direct"})) <= 1
       /\ Len(result.calls) =
             Cardinality(CallsTo(result.calls, WeatherEndpoints \cup {"geo/1.0/direct"}))
       /\ current_provider.client = "weather_api::WeatherApi"
             => /\ CallsTo(result.calls, {"geo/1.0/direct"} \cup OwmWeatherEndpoints) = {}
                /\ Len(result.calls) <= 1
       /\ current_provider.client = "open_weather_map::OpenWeatherMap"
             => /\ CallsTo(result.calls, WeatherEndpoints \ OwmWeatherEndpoints) = {}
                /\ Len(result.calls) >= 1 => result.calls[1].endpoint = "geo/1.0/direct"
       /\ \A i, j \in 1..Len(result.calls) : i # j => result.calls[i] # result.calls[j]
       /\ \A i \in 1..Len(result.calls) :
             ~Answered(result.calls[i])
             => /\ i = Len(result.calls)
                /\ result.res = (IF result.calls[i].answer.status = "ok"
                                 THEN "AddressNotFound" ELSE "UpstreamError")
                /\ result.weather = NoWeather
       /\ result.res = "Ok"
             => /\ CallsTo(result.calls, WeatherEndpoints) = {Len(result.calls)}
                /\ \A i \in 1..Len(result.calls) : Answered(result.calls[i])

\* C15 witness: under OpenWeatherMap the weather call failed after the
\* geocoding call was answered, and nothing was sent after it
C15_Witness ==
    /\ command.kind = "get"
    /\ current_provider.client = "open_weather_map::OpenWeatherMap"
    /\ Len(result.calls) = 2
    /\ Answered(result.calls[1])
    /\ result.calls[2].answer.status = "send_failed"
    /\ result.res = "UpstreamError"
    /\ pc = "exited"

\* what clap reports for input that is no command: a help request, or an
\* error of parsing
ParseErrorKinds == {"DisplayHelp", "InvalidSubcommand"}

\* C16: handling input that does not parse, a help request included, leaves
\* the active provider name, its client, the credential map and the
\* persisted record as they were, stores nothing and sends no call.
C16_ParseFailureChangesNothing ==
    [][(Handled(command') /\ command'.kind \in ParseErrorKinds)
       => /\ current_provider_name' = current_provider_name
          /\ current_provider' = current_provider
          /\ available_providers' = available_providers
          /\ file' = file
          /\ result'.stores = <<>>
          /\ result'.calls = <<>>
          /\ result'.weather = NoWeather]_vars

\* C16 witness: a help request was handled while the persisted record
\* named another provider than the active one
C16_Witness ==
    /\ pc = "running"
    /\ command.kind = "DisplayHelp"
    /\ result.res = "DisplayHelp"
    /\ file \in ProviderName
    /\ file # current_provider_name

\* C17: after a `configure` that one agent handled successfully, the
\* persisted record names the provider of that configure, the most recent
\* one; so configuring another provider and then the provider active at
\* startup leaves the record naming the startup provider.
C17_RecordIsLastConfigured ==
    (command.kind = "configure" /\ result.res = "Ok")
    => file = command.provider

\* C18: with the WeatherApi client every forecast call asks for a window of
\* at least 2 days: the date of today goes to the history call and never to
\* the forecast call, and the date of tomorrow, the nearest date forecast,
\* asks for 2 days.
C18_ForecastWindowAtLeastTwo ==
    (command.kind = "get" /\ current_provider.client = "weather_api::WeatherApi")
    => /\ \A i \in 1..Len(result.calls) :
             result.calls[i].endpoint = "v1/forecast.json"
             => /\ result.calls[i].days >= 2
                /\ command.date.some
                /\ command.date.text \in CalendarTexts
                /\ DaysFromCivil(Named(command.date.text)) > DaysFromCivil(now_date)
       /\ (command.date.some /\ command.date.text = FmtDate(now_date.y, now_date.m, now_date.d))
          => /\ Len(result.calls) = 1
             /\ result.calls[1].endpoint = "v1/history.json"
       /\ (/\ command.date.some
           /\ command.date.text \in CalendarTexts
           /\ Named(command.date.text) = Tomorrow(now_date))
          => /\ Len(result.calls) = 1
             /\ result.calls[1].endpoint = "v1/forecast.json"
             /\ result.calls[1].days = 2

\* C18 witness: on 2023-12-31 the date 2024-01-01 was asked of WeatherApi
\* and the forecast call asked for 2 days
C18_Witness ==
    /\ IsDatedGet
    /\ current_provider.client = "weather_api::WeatherApi"
    /\ now_date = [y |-> 2023, m |-> 12, d |-> 31]
    /\ command.date.text = FmtDate(2024, 1, 1)
    /\ Len(result.calls) = 1
    /\ result.calls[1].endpoint = "v1/forecast.json"
    /\ result.calls[1].days = 2

\* C19: a `get`, whether it succeeds or fails, and a `current-provider`
\* store no configuration record and leave the persisted record, the
\* active provider name and the client as they were; a command that
\* changes the persisted record is a `configure`.
C19_OnlyConfigureWritesRecord ==
    [][/\ (Handled(command') /\ command'.kind \in {"get", "current-provider"})
          => /\ result'.stores = <<>>
             /\ file' = file
             /\ current_provider_name' = current_provider_name
             /\ current_provider' = current_provider
       /\ (pc = "running" /\ (file' # file \/ result'.stores # <<>>))
          => /\ command'.kind = "configure"
             /\ result'.stores = <<command'.provider>>]_vars

\* C19 witness: a `get` failed while the persisted record named another
\* provider than the active one, and the record is still that one
C19_Witness ==
    /\ command.kind = "get"
    /\ result.res \in CommandFailures
    /\ result.stores = <<>>
    /\ file \in ProviderName
    /\ file # current_provider_name

=============================================================================
